---- MODULE Spec2Model ----
(***************************************************************************)
(* chartit/validation.py: the input normaliser of django-chartit.          *)
(*                                                                         *)
(* Every function of the module is a pure function of its arguments,      *)
(* except that clean_dps deletes a key of the caller's term dicts.  A      *)
(* state of the model is one call: the function called, its argument as    *)
(* the caller passed it, the argument object as the call left it, and the  *)
(* outcome (the value returned or the class of the exception raised).  A   *)
(* second step calls the same function again, either with the same        *)
(* argument object or with the value the first call returned.              *)
(*                                                                         *)
(* Python values are records [kind, val]: kind is the Python type and val  *)
(* its payload.  A str that is a series name or a field path is the        *)
(* sequence of its '__'-separated segments ("author__name" is              *)
(* <<"author", "name">>), so that str.split('__') and '__'.join are        *)
(* sequence operations; the fixed keys of option dicts ('source', ...)     *)
(* are TLA+ strings.  A dict is a function from its keys to its values.    *)
(***************************************************************************)
EXTENDS Integers, Sequences, FiniteSets, TLC

VARIABLES fn, arg, ctx, after, ret, ret2

vars == <<fn, arg, ctx, after, ret, ret2>>

(***************************************************************************)
(* Bounds of the enumerated inputs.                                        *)
(***************************************************************************)
MaxTermLen == 3
MaxTuple == 3
MaxList == 2
MaxEntries == 2
MaxTerms == 2

(***************************************************************************)
(* Python values.                                                          *)
(***************************************************************************)
Py(k, v) == [kind |-> k, val |-> v]
PyNone == Py("NoneType", <<>>)
PyStr(segs) == Py("str", segs)
PyInt(n) == Py("int", n)
PyBool(b) == Py("bool", b)
PyTuple(s) == Py("tuple", s)
PyList(s) == Py("list", s)
PyDict(d) == Py("dict", d)
PyFunction(name) == Py("function", name)
PyAggregate(name) == Py("Aggregate", name)
PyModel(name) == Py("ModelBase", name)
PyQuerySet(m, q) == Py("QuerySet", [model |-> m, query |-> q])

EmptyDict == [k \in {} |-> PyNone]

\* bool(v), as `not v` and `if v` apply it
Truthy(v) ==
    CASE v.kind = "NoneType" -> FALSE
      [] v.kind = "bool" -> v.val
      [] v.kind = "int" -> v.val # 0
      [] v.kind \in {"str", "tuple", "list"} -> Len(v.val) > 0
      [] v.kind = "dict" -> DOMAIN v.val # {}
      [] OTHER -> TRUE

\* callable(v)
Callable(v) == v.kind \in {"function", "ModelBase"}

\* "<nspec conversions>" % v raises TypeError when v is a tuple whose length
\* is not the number of conversions; any other v is the single argument.
FormatRaises(nspec, v) ==
    IF v.kind = "tuple" THEN Len(v.val) # nspec ELSE nspec # 1

(***************************************************************************)
(* Outcomes of a call.                                                     *)
(***************************************************************************)
Return(v) == [exc |-> "", value |-> v]
Raise(e) == [exc |-> e, value |-> PyNone]
\* raise APIInputError(fmt % v) with one conversion in fmt
RaiseFmt(v) == IF FormatRaises(1, v) THEN Raise("TypeError") ELSE Raise("APIInputError")
\* the statements after a call that returned: an exception of the call ends
\* the caller too (none of the functions catches these)
Then(r, rest(_)) == IF r.exc # "" THEN r ELSE rest(r.value)

(***************************************************************************)
(* The schema behind the querysets: django's Options (_meta).              *)
(***************************************************************************)
Field(owner, n, att, rel, m2o, related, auto, conc, verbose) ==
    [model |-> owner, name |-> n, attname |-> att, is_relation |-> rel,
     many_to_one |-> m2o, related_model |-> related, auto_created |-> auto,
     concrete |-> conc, verbose_name |-> verbose]

\* attname of a field that has none (hasattr(field, 'attname') is False)
NoAttname == "<no attname>"

concrete_model(m) == IF m = "AuthorProxy" THEN "Author" ELSE m

get_fields(m) ==
    CASE m = "Book" ->
           { Field("Book", "id", "id", FALSE, FALSE, "None", TRUE, TRUE, "ID"),
             Field("Book", "title", "title", FALSE, FALSE, "None", FALSE, TRUE, "book title"),
             Field("Book", "author", "author_id", TRUE, TRUE, "Author", FALSE, TRUE, "written by"),
             Field("Book", "content_object", NoAttname, TRUE, TRUE, "None", FALSE, FALSE, "") }
      [] m = "Author" ->
           { Field("Author", "id", "id", FALSE, FALSE, "None", TRUE, TRUE, "ID"),
             Field("Author", "name", "name", FALSE, FALSE, "None", FALSE, TRUE, "author name"),
             Field("Author", "book", NoAttname, TRUE, FALSE, "Book", TRUE, FALSE, ""),
             Field("AuthorProxy", "review", NoAttname, TRUE, FALSE, "Book", TRUE, FALSE, "") }
      [] OTHER -> {}

\* model._meta.get_field(name): by name or by attname
get_field(m, n) ==
    CHOOSE f \in get_fields(m) : f.name = n \/ f.attname = n

get_all_field_names(m) ==
    LET kept == { f \in get_fields(m) :
                    /\ ~(f.is_relation /\ f.many_to_one /\ f.related_model = "None")
                    /\ ~(f.model # m /\ concrete_model(f.model) = concrete_model(m)) }
    IN  { f.name : f \in kept } \cup { f.attname : f \in { g \in kept : g.attname # NoAttname } }

Query(ann, ext) == [annotations |-> ann, extra |-> ext]

(***************************************************************************)
(* _validate_field_lookup_term(model, term, query).  term is the sequence  *)
(* of the segments of the lookup string; model is "None" after a descent   *)
(* through a field that has no related model.                              *)
(***************************************************************************)
RECURSIVE _validate_field_lookup_term(_, _, _)
_validate_field_lookup_term(model, term, query) ==
    IF term \in query.annotations \/ term \in query.extra
    THEN Return(PyStr(term))
    ELSE IF model = "None"
    THEN Raise("AttributeError")
    ELSE IF Head(term) \notin get_all_field_names(model)
    THEN Raise("APIInputError")
    ELSE IF Len(term) = 1
    THEN Return(PyStr(<<get_field(model, Head(term)).verbose_name>>))
    ELSE LET field == get_field(model, Head(term))
             m == IF ~field.auto_created \/ field.concrete
                  THEN field.related_model
                  ELSE model
         IN  _validate_field_lookup_term(m, Tail(term), query)

(***************************************************************************)
(* clean_sortf_mapf_mts and clean_x_sortf_mapf_mts.                        *)
(***************************************************************************)
clean_sortf_mapf_mts(sortf_mapf_mts) ==
    IF ~Truthy(sortf_mapf_mts)
    THEN Return(PyTuple(<<PyNone, PyNone, PyBool(FALSE)>>))
    ELSE IF sortf_mapf_mts.kind # "tuple"
    THEN Raise("APIInputError")
    ELSE IF Len(sortf_mapf_mts.val) # 3
    THEN RaiseFmt(sortf_mapf_mts)
    ELSE LET sortf == sortf_mapf_mts.val[1]
             mapf == sortf_mapf_mts.val[2]
             mts == sortf_mapf_mts.val[3]
         IN  IF Truthy(sortf) /\ ~Callable(sortf)
             THEN Raise("APIInputError")
             ELSE IF Truthy(mapf) /\ ~Callable(mapf)
             THEN Raise("APIInputError")
             ELSE Return(PyTuple(<<sortf, mapf, PyBool(Truthy(mts))>>))

\* for x_s_m_mts in x_sortf_mapf_mts
RECURSIVE clean_x_loop(_, _, _)
clean_x_loop(items, i, cleaned_x_s_m_mts) ==
    IF i > Len(items)
    THEN Return(PyList(cleaned_x_s_m_mts))
    ELSE Then(clean_sortf_mapf_mts(items[i]),
              LAMBDA cleaned : clean_x_loop(items, i + 1, Append(cleaned_x_s_m_mts, cleaned)))

clean_x_sortf_mapf_mts(x_sortf_mapf_mts) ==
    IF ~Truthy(x_sortf_mapf_mts)
    THEN Return(PyList(<<PyTuple(<<PyNone, PyNone, PyBool(FALSE)>>)>>))
    ELSE IF x_sortf_mapf_mts.kind = "tuple"
    THEN clean_x_loop(<<x_sortf_mapf_mts>>, 1, <<>>)
    ELSE IF x_sortf_mapf_mts.kind # "list"
    THEN Raise("APIInputError")
    ELSE clean_x_loop(x_sortf_mapf_mts.val, 1, <<>>)

(***************************************************************************)
(* dict operations.                                                        *)
(***************************************************************************)
\* {k: v}
Dict1(k, v) == [x \in {k} |-> v]
\* d[k] = v
DictSet(d, k, v) == [x \in DOMAIN d \cup {k} |-> IF x = k THEN v ELSE d[x]]
\* d.update(e)
DictUpdate(d, e) == [x \in DOMAIN d \cup DOMAIN e |-> IF x \in DOMAIN e THEN e[x] ELSE d[x]]
\* del d[k]
DictDel(d, k) == [x \in DOMAIN d \ {k} |-> d[x]]
\* d.setdefault(k, v)
DictSetDefault(d, k, v) == IF k \in DOMAIN d THEN d ELSE DictSet(d, k, v)
\* copy.deepcopy(v) and copy.copy(v): a new object holding the same contents.
\* The objects the code then mutates in place are the copies; the one object
\* of the caller it mutates (a term dict of clean_dps) is tracked explicitly.
deepcopy(v) == v

(***************************************************************************)
(* _validate_source, _validate_func, and the lookup of a term value.       *)
(***************************************************************************)
_validate_source(source) ==
    IF source.kind = "QuerySet" THEN Return(source) ELSE Raise("APIInputError")

_validate_func(func) ==
    IF func.kind # "Aggregate" THEN Raise("APIInputError") ELSE Return(PyNone)

\* _validate_field_lookup_term(source.model, c, source.query) for a value c
\* that the caller supplied: a value that is not a str has no split().
validate_lookup_value(source, c) ==
    IF c.kind # "str"
    THEN Raise("AttributeError")
    ELSE _validate_field_lookup_term(source.val.model, c.val, source.val.query)

(***************************************************************************)
(* clean_dps.  The loops return [out, obj]: the outcome, and the looped    *)
(* list as the loop left it.                                               *)
(***************************************************************************)
\* "make some more validations": the end of the loop body, on the record
\* sd_term stored under _new_name
_dps_validate_term(_new_name, sd_term) ==
    IF "source" \notin DOMAIN sd_term
    THEN Raise("APIInputError")
    ELSE Then(_validate_source(sd_term["source"]), LAMBDA source :
         Then(validate_lookup_value(source,
                                    DictSetDefault(sd_term, "field", PyStr(_new_name))["field"]),
              LAMBDA fa :
         Return(PyDict(
           DictSetDefault(
             DictSetDefault(DictSet(sd_term, "source", source), "field", PyStr(_new_name)),
             "field_alias",
             IF PyStr(_new_name) # DictSetDefault(sd_term, "field", PyStr(_new_name))["field"]
             THEN PyStr(_new_name)
             ELSE fa)))))

\* A faulty variant of StoreSeries, for the sanity check of C9: the record
\* already stored under a name is kept.
StoreSeries_first_wins(series_dict, _new_name, record) ==
    IF _new_name \in DOMAIN series_dict THEN series_dict
    ELSE DictSet(series_dict, _new_name, record)

\* series_dict[_new_name] = record: a later record replaces an earlier one
StoreSeries(series_dict, _new_name, record) == DictSet(series_dict, _new_name, record)

\* for term in terms; terms is the list as the loop has left it so far
RECURSIVE _dps_terms_loop(_, _, _, _)
RECURSIVE _dps_terms_next(_, _, _, _, _, _)
_dps_terms_loop(options, terms, j, series_dict) ==
    IF j > Len(terms)
    THEN [out |-> Return(series_dict), obj |-> terms]
    ELSE IF terms[j].kind = "str"
    THEN _dps_terms_next(options, terms, j, series_dict, terms[j].val,
                         _dps_validate_term(terms[j].val, deepcopy(options)))
    ELSE IF terms[j].kind = "dict"
    THEN IF "_new_name" \notin DOMAIN terms[j].val
         THEN [out |-> Raise("KeyError"), obj |-> terms]
         ELSE _dps_terms_next(options,
                              [terms EXCEPT ![j] = PyDict(DictDel(terms[j].val, "_new_name"))],
                              j, series_dict, terms[j].val["_new_name"].val,
                              _dps_validate_term(
                                terms[j].val["_new_name"].val,
                                DictUpdate(deepcopy(options),
                                           DictDel(terms[j].val, "_new_name"))))
    ELSE [out |-> Raise("APIInputError"), obj |-> terms]

\* the record r of term j is validated: store it and go on, or raise
_dps_terms_next(options, terms, j, series_dict, _new_name, r) ==
    IF r.exc # ""
    THEN [out |-> r, obj |-> terms]
    ELSE _dps_terms_loop(options, terms, j + 1, StoreSeries(series_dict, _new_name, r.value))

\* for sd in series_list
RECURSIVE _dps_series_loop(_, _, _)
RECURSIVE _dps_series_next(_, _, _)
_dps_series_loop(series_list, i, series_dict) ==
    IF i > Len(series_list)
    THEN [out |-> Return(PyDict(series_dict)), obj |-> series_list]
    ELSE IF series_list[i].kind # "dict"
    THEN [out |-> Raise("AttributeError"), obj |-> series_list]
    ELSE IF {"options", "terms"} \ DOMAIN series_list[i].val # {}
    THEN [out |-> Raise("APIInputError"), obj |-> series_list]
    ELSE IF series_list[i].val["options"].kind # "dict"
    THEN [out |-> RaiseFmt(series_list[i].val["options"]), obj |-> series_list]
    ELSE IF series_list[i].val["terms"].kind # "list"
    THEN [out |-> RaiseFmt(series_list[i].val["terms"]), obj |-> series_list]
    ELSE IF ~Truthy(series_list[i].val["terms"])
    THEN [out |-> Raise("APIInputError"), obj |-> series_list]
    ELSE _dps_series_next(series_list, i,
                          _dps_terms_loop(series_list[i].val["options"].val,
                                          series_list[i].val["terms"].val, 1, series_dict))

\* the terms of entry i are looped over, with result r: r.obj is the list
\* sd['terms'] now holds
_dps_series_next(series_list, i, r) ==
    IF r.out.exc # ""
    THEN [out |-> r.out,
          obj |-> [series_list EXCEPT
                     ![i] = PyDict(DictSet(series_list[i].val, "terms", PyList(r.obj)))]]
    ELSE _dps_series_loop(
           [series_list EXCEPT
              ![i] = PyDict(DictSet(series_list[i].val, "terms", PyList(r.obj)))],
           i + 1, r.out.value)

_convert_dps_to_dict(series_list) == _dps_series_loop(series_list, 1, EmptyDict)

\* A variant of clean_dps, for the sanity check of C1: a dict is taken to be
\* the converted form and returned as it is.
clean_dps_dict_form(series) ==
    IF ~Truthy(series)
    THEN [out |-> Raise("APIInputError"), obj |-> series]
    ELSE IF series.kind = "dict"
    THEN [out |-> Return(series), obj |-> series]
    ELSE IF series.kind # "list"
    THEN [out |-> RaiseFmt(series), obj |-> series]
    ELSE [out |-> _convert_dps_to_dict(series.val).out,
          obj |-> PyList(_convert_dps_to_dict(series.val).obj)]

\* [out, obj]: the outcome, and the argument object after the call
clean_dps(series) ==
    IF ~Truthy(series)
    THEN [out |-> Raise("APIInputError"), obj |-> series]
    ELSE IF series.kind # "list"
    THEN [out |-> RaiseFmt(series), obj |-> series]
    ELSE [out |-> _convert_dps_to_dict(series.val).out,
          obj |-> PyList(_convert_dps_to_dict(series.val).obj)]

(***************************************************************************)
(* clean_pdps.  A dict that the code iterates (the 'terms' of an entry) is *)
(* kind "dict" with, as val, its items in iteration order: a sequence of   *)
(* <<key, value>> pairs with distinct keys.                                *)
(***************************************************************************)
\* the loops `for c in categories` and `for lg in legend_by`: the aliases dict
RECURSIVE _lookup_loop(_, _, _, _)
_lookup_loop(items, i, source, field_aliases) ==
    IF i > Len(items)
    THEN Return(field_aliases)
    ELSE Then(validate_lookup_value(source, items[i]),
              LAMBDA alias : _lookup_loop(items, i + 1, source,
                                          DictSet(field_aliases, items[i].val, alias)))

\* returns (categories, field_aliases)
_clean_categories(categories, source) ==
    IF categories.kind \notin {"str", "tuple", "list"}
    THEN Raise("APIInputError")
    ELSE IF categories.kind # "str" /\ ~Truthy(categories)
    THEN RaiseFmt(categories)
    ELSE Then(_lookup_loop(IF categories.kind = "str" THEN <<categories>> ELSE categories.val,
                           1, source, EmptyDict),
              LAMBDA fa : Return([categories |-> IF categories.kind = "str"
                                                 THEN PyList(<<categories>>)
                                                 ELSE categories,
                                  fa |-> fa]))

\* returns (legend_by, field_aliases)
_validate_legend_by(legend_by, source) ==
    IF Truthy(legend_by) /\ legend_by.kind # "list"
    THEN Raise("APIInputError")
    ELSE Then(_lookup_loop(IF Truthy(legend_by) THEN legend_by.val ELSE <<>>,
                           1, source, EmptyDict),
              LAMBDA fa : Return([legend_by |-> IF Truthy(legend_by) THEN legend_by
                                                ELSE PyList(<<>>),
                                  fa |-> fa]))

_validate_top_n_per_cat(top_n_per_cat) ==
    IF top_n_per_cat.kind \notin {"int", "bool"}
    THEN Raise("APIInputError")
    ELSE Return(PyNone)

\* A faulty variant of _merge_field_aliases, for the sanity check of C7: the
\* two updates are made in the other order.
_merge_field_aliases_swapped(fa_actual, fa_cat, fa_lgby) ==
    [fa |-> DictUpdate(DictUpdate(deepcopy(fa_lgby), fa_actual), fa_cat),
     fa_actual |-> fa_actual, fa_cat |-> fa_cat, fa_lgby |-> fa_lgby]

\* [fa, fa_actual, fa_cat, fa_lgby]: the dict returned, and the three
\* argument dicts as the call left them (fa is a copy of fa_lgby, and the
\* only dict updated)
_merge_field_aliases(fa_actual, fa_cat, fa_lgby) ==
    [fa |-> DictUpdate(DictUpdate(deepcopy(fa_lgby), fa_cat), fa_actual),
     fa_actual |-> fa_actual, fa_cat |-> fa_cat, fa_lgby |-> fa_lgby]

\* the end of the loop body: the record stored, from the validated parts
_pdps_record(opts, source, cat, lgby) ==
    IF "field_aliases" \in DOMAIN opts /\ opts["field_aliases"].kind # "dict"
    THEN Raise("TypeError")
    ELSE Return(PyDict(
           [x \in DOMAIN opts \cup {"legend_by", "top_n_per_cat", "field_aliases"} |->
              CASE x = "source" -> source
                [] x = "categories" -> cat.categories
                [] x = "legend_by" -> lgby.legend_by
                [] x = "top_n_per_cat" -> IF x \in DOMAIN opts THEN opts[x] ELSE PyInt(0)
                [] x = "field_aliases" ->
                     PyDict(_merge_field_aliases(
                              IF x \in DOMAIN opts THEN opts[x].val ELSE EmptyDict,
                              cat.fa, lgby.fa).fa)
                [] OTHER -> opts[x]]))

\* the loop body from "make some more validations" on; opts is the copy of
\* options updated with the term
_pdps_build(opts) ==
    IF {"source", "func", "categories"} \ DOMAIN opts # {}
    THEN Raise("APIInputError")
    ELSE Then(_validate_source(opts["source"]), LAMBDA source :
         Then(_validate_func(opts["func"]), LAMBDA checked :
         Then(_clean_categories(opts["categories"], source), LAMBDA cat :
         Then(IF "legend_by" \in DOMAIN opts
              THEN _validate_legend_by(opts["legend_by"], source)
              ELSE Return([legend_by |-> PyTuple(<<>>), fa |-> EmptyDict]), LAMBDA lgby :
         Then(IF "top_n_per_cat" \in DOMAIN opts
              THEN _validate_top_n_per_cat(opts["top_n_per_cat"])
              ELSE Return(PyNone), LAMBDA checked2 :
         _pdps_record(opts, source, cat, lgby))))))

\* for tk, tv in terms.items()
RECURSIVE _pdps_terms_loop(_, _, _, _)
_pdps_terms_loop(options, items, j, series_dict) ==
    IF j > Len(items)
    THEN Return(series_dict)
    ELSE IF items[j][2].kind \notin {"Aggregate", "dict"}
    THEN RaiseFmt(items[j][2])
    ELSE Then(_pdps_build(DictUpdate(deepcopy(options),
                                     IF items[j][2].kind = "Aggregate"
                                     THEN Dict1("func", items[j][2])
                                     ELSE items[j][2].val)),
              LAMBDA opts : _pdps_terms_loop(options, items, j + 1,
                                             StoreSeries(series_dict, items[j][1], opts)))

\* for sd in series_list
RECURSIVE _pdps_series_loop(_, _, _)
_pdps_series_loop(series_list, i, series_dict) ==
    IF i > Len(series_list)
    THEN Return(PyDict(series_dict))
    ELSE IF series_list[i].kind # "dict"
    THEN Raise("AttributeError")
    ELSE IF {"options", "terms"} \ DOMAIN series_list[i].val # {}
    THEN Raise("APIInputError")
    ELSE IF series_list[i].val["options"].kind # "dict"
    THEN RaiseFmt(series_list[i].val["options"])
    ELSE IF series_list[i].val["terms"].kind # "dict"
    THEN RaiseFmt(series_list[i].val["terms"])
    ELSE IF ~Truthy(series_list[i].val["terms"])
    THEN Raise("APIInputError")
    ELSE Then(_pdps_terms_loop(series_list[i].val["options"].val,
                               series_list[i].val["terms"].val, 1, series_dict),
              LAMBDA d : _pdps_series_loop(series_list, i + 1, d))

_convert_pdps_to_dict(series_list) == _pdps_series_loop(series_list, 1, EmptyDict)

\* clean_pdps changes none of the caller's objects
clean_pdps(series) ==
    IF ~Truthy(series)
    THEN Raise("APIInputError")
    ELSE IF series.kind # "list"
    THEN RaiseFmt(series)
    ELSE _convert_pdps_to_dict(series.val)

(***************************************************************************)
(* clean_pcso and clean_cso.  ds is [series |-> a function from the series *)
(* names of the datasource to records with a field _data].  The dicts the  *)
(* converters iterate (a dict term, the 'terms' dict of clean_cso) hold    *)
(* their items in iteration order, as above.                               *)
(***************************************************************************)
\* stod['options'] and stod['terms'] of a list entry: "" when both are
\* there, else the exception class
_stod_keys(stod) ==
    IF stod.kind # "dict"
    THEN "TypeError"
    ELSE IF "options" \notin DOMAIN stod.val
    THEN "APIInputError"
    ELSE IF stod.val["options"].kind # "dict"
    THEN RaiseFmt(stod.val["options"]).exc
    ELSE IF "terms" \notin DOMAIN stod.val
    THEN "APIInputError"
    ELSE ""

\* for tk, tv in term.items()
RECURSIVE _pcso_items_loop(_, _, _, _)
_pcso_items_loop(options, items, k, series_options_dict) ==
    IF k > Len(items)
    THEN Return(series_options_dict)
    ELSE IF items[k][2].kind # "dict"
    THEN RaiseFmt(items[k][2])
    ELSE _pcso_items_loop(options, items, k + 1,
           DictSet(series_options_dict, items[k][1],
                   PyDict(DictUpdate(deepcopy(options), items[k][2].val))))

\* for term in terms: a term that is neither a str nor a dict is passed over
RECURSIVE _pcso_terms_loop(_, _, _, _)
_pcso_terms_loop(options, terms, j, series_options_dict) ==
    IF j > Len(terms)
    THEN Return(series_options_dict)
    ELSE IF terms[j].kind = "str"
    THEN _pcso_terms_loop(options, terms, j + 1,
           DictSet(series_options_dict, terms[j].val, PyDict(deepcopy(options))))
    ELSE IF terms[j].kind = "dict"
    THEN Then(_pcso_items_loop(options, terms[j].val, 1, series_options_dict),
              LAMBDA d : _pcso_terms_loop(options, terms, j + 1, d))
    ELSE _pcso_terms_loop(options, terms, j + 1, series_options_dict)

\* for stod in series_options
RECURSIVE _pcso_series_loop(_, _, _)
_pcso_series_loop(series_options, i, series_options_dict) ==
    IF i > Len(series_options)
    THEN Return(series_options_dict)
    ELSE IF _stod_keys(series_options[i]) # ""
    THEN Raise(_stod_keys(series_options[i]))
    ELSE IF series_options[i].val["terms"].kind # "list"
    THEN RaiseFmt(series_options[i].val["terms"])
    ELSE Then(_pcso_terms_loop(series_options[i].val["options"].val,
                               series_options[i].val["terms"].val, 1, series_options_dict),
              LAMBDA d : _pcso_series_loop(series_options, i + 1, d))

_convert_pcso_to_dict(series_options) == _pcso_series_loop(series_options, 1, EmptyDict)

\* the dict branch of clean_pcso: every raise in it is an APIInputError
_pcso_check_dict(series_options, ds) ==
    IF \A sok \in DOMAIN series_options :
          /\ sok \in DOMAIN ds.series
          /\ series_options[sok].kind = "dict"
    THEN Return(PyDict(series_options))
    ELSE Raise("APIInputError")

clean_pcso(series_options, ds) ==
    IF series_options.kind = "dict"
    THEN _pcso_check_dict(series_options.val, ds)
    ELSE IF series_options.kind = "list"
    THEN Then(_convert_pcso_to_dict(series_options.val),
              LAMBDA d : _pcso_check_dict(d, ds))
    ELSE RaiseFmt(series_options)

\* for yterm in td
RECURSIVE _cso_yterms_loop(_, _, _, _, _)
_cso_yterms_loop(options, tk, td, k, series_options_dict) ==
    IF k > Len(td)
    THEN Return(series_options_dict)
    ELSE IF td[k].kind = "str"
    THEN _cso_yterms_loop(options, tk, td, k + 1,
           DictSet(series_options_dict, td[k].val,
                   PyDict(DictSet(deepcopy(options), "_x_axis_term", PyStr(tk)))))
    ELSE IF td[k].kind = "dict"
    THEN IF Len(td[k].val) = 0
         THEN Raise("IndexError")
         ELSE IF td[k].val[1][2].kind # "dict"
         THEN Raise("TypeError")
         ELSE _cso_yterms_loop(options, tk, td, k + 1,
                DictSet(series_options_dict, td[k].val[1][1],
                        PyDict(DictSet(DictUpdate(deepcopy(options), td[k].val[1][2].val),
                                       "_x_axis_term", PyStr(tk)))))
    ELSE RaiseFmt(td[k])

\* for tk, td in terms.items()
RECURSIVE _cso_terms_loop(_, _, _, _)
_cso_terms_loop(options, items, j, series_options_dict) ==
    IF j > Len(items)
    THEN Return(series_options_dict)
    ELSE IF items[j][2].kind # "list"
    THEN RaiseFmt(items[j][2])
    ELSE Then(_cso_yterms_loop(options, items[j][1], items[j][2].val, 1, series_options_dict),
              LAMBDA d : _cso_terms_loop(options, items, j + 1, d))

\* for stod in series_options
RECURSIVE _cso_series_loop(_, _, _)
_cso_series_loop(series_options, i, series_options_dict) ==
    IF i > Len(series_options)
    THEN Return(series_options_dict)
    ELSE IF _stod_keys(series_options[i]) # ""
    THEN Raise(_stod_keys(series_options[i]))
    ELSE IF series_options[i].val["terms"].kind # "dict"
    THEN RaiseFmt(series_options[i].val["terms"])
    ELSE IF ~Truthy(series_options[i].val["terms"])
    THEN Raise("APIInputError")
    ELSE Then(_cso_terms_loop(series_options[i].val["options"].val,
                              series_options[i].val["terms"].val, 1, series_options_dict),
              LAMBDA d : _cso_series_loop(series_options, i + 1, d))

_convert_cso_to_dict(series_options) == _cso_series_loop(series_options, 1, EmptyDict)

\* A faulty variant of _cso_entry_ok, for the sanity check of C3: the tables
\* of the two series are not compared.
_cso_entry_ok_any_table(sok, sod, ds) ==
    /\ sok \in DOMAIN ds.series
    /\ sod.kind = "dict"
    /\ "_x_axis_term" \in DOMAIN sod.val
    /\ sod.val["_x_axis_term"].kind = "str"
    /\ sod.val["_x_axis_term"].val \in DOMAIN ds.series

\* the checks of one entry sok: sod in the dict branch of clean_cso
_cso_entry_ok(sok, sod, ds) ==
    /\ sok \in DOMAIN ds.series
    /\ sod.kind = "dict"
    /\ "_x_axis_term" \in DOMAIN sod.val
    /\ sod.val["_x_axis_term"].kind = "str"
    /\ sod.val["_x_axis_term"].val \in DOMAIN ds.series
    /\ ds.series[sok]._data = ds.series[sod.val["_x_axis_term"].val]._data

\* the dict branch of clean_cso: every raise in it is an APIInputError
_cso_check_dict(series_options, ds) ==
    IF \A sok \in DOMAIN series_options : _cso_entry_ok(sok, series_options[sok], ds)
    THEN Return(PyDict(series_options))
    ELSE Raise("APIInputError")

clean_cso(series_options, ds) ==
    IF series_options.kind = "dict"
    THEN _cso_check_dict(series_options.val, ds)
    ELSE IF series_options.kind = "list"
    THEN Then(_convert_cso_to_dict(series_options.val),
              LAMBDA d : _cso_check_dict(d, ds))
    ELSE Raise("APIInputError")

(***************************************************************************)
(* The inputs the calls are made with.                                     *)
(***************************************************************************)
SeqsUpTo(V, n) == UNION { [1..k -> V] : k \in 0..n }
\* the items, in order, of the dicts of at most n items with keys in K
ItemsUpTo(K, V, n) ==
    { s \in SeqsUpTo(K \X V, n) : \A i, j \in DOMAIN s : i # j => s[i][1] # s[j][1] }
S(n) == PyStr(<<n>>)

QsBook == PyQuerySet("Book", Query({<<"total">>}, {<<"bogus", "name">>}))
QsAuthor == PyQuerySet("Author", Query({}, {}))

\* _validate_field_lookup_term
Segments == {"title", "author", "author_id", "name", "book", "review",
             "content_object", "total", "bogus"}
LookupTerms == UNION { [1..k -> Segments] : k \in 1..MaxTermLen }
LookupSources == {QsBook, QsAuthor}

\* clean_sortf_mapf_mts, clean_x_sortf_mapf_mts
SlotValues == {PyNone, PyFunction("f"), PyFunction("g"), PyInt(0), PyInt(1), S("asc")}
SortMapInputs ==
    { PyTuple(t) : t \in SeqsUpTo(SlotValues, MaxTuple) }
      \cup { PyList(t) : t \in SeqsUpTo(SlotValues, MaxTuple) }
      \cup SlotValues
XSlotValues == {PyNone, PyFunction("f"), PyInt(0)}
XTuples == { PyTuple(t) : t \in SeqsUpTo(XSlotValues, MaxTuple) \ SeqsUpTo(XSlotValues, 1) }
XSortMapInputs ==
    XTuples \cup { PyList(l) : l \in SeqsUpTo(XTuples \cup {PyNone, PyInt(1)}, MaxList) }
      \cup {PyNone, PyInt(1), S("asc")}

\* _merge_field_aliases: dicts from field paths to display names
AliasDicts ==
    UNION { [K -> {S("X"), S("Y")}] : K \in SUBSET {<<"title">>, <<"author", "name">>} }

\* options dicts: one choice (or no key) per key
Choice(k, values) == {EmptyDict} \cup { Dict1(k, v) : v \in values }
Merged2(A, B) == { DictUpdate(a, b) : a \in A, b \in B }

\* clean_dps: lists of entries of several terms over few values ...
DpsOptionsFew ==
    { Dict1("source", QsBook),
      [source |-> QsBook, field_alias |-> S("Label"), func |-> PyFunction("f")] }
DpsTermsFew ==
    { S("title"),
      PyDict([_new_name |-> S("title"), field |-> PyStr(<<"author", "name">>)]) }
DpsSeriesFew ==
    { PyList(l) : l \in SeqsUpTo(
        { PyDict([options |-> PyDict(o), terms |-> PyList(t)]) :
            o \in DpsOptionsFew, t \in SeqsUpTo(DpsTermsFew, MaxTerms) }, MaxEntries) }
\* ... and one entry of one term over many values
DpsOptionsMany ==
    Merged2(Choice("source", {QsBook, QsAuthor, PyModel("Book")}),
            Merged2(Choice("field", {S("title"), PyStr(<<"author", "name">>),
                                     PyStr(<<"title", "bogus">>), PyStr(<<"title", "total">>),
                                     S("bogus"), PyInt(5)}),
                    Choice("field_alias", {S("Label")})))
DpsTermsMany ==
    {S("title"), S("name"), S("bogus"), PyStr(<<"author", "name">>), PyInt(5), PyNone}
      \cup { PyDict(d) : d \in
               Merged2(Choice("_new_name", {S("title"), S("t")}),
                       Merged2(Choice("field", {S("title"), S("name")}),
                               Choice("source", {QsAuthor}))) }
DpsSeriesOne ==
    { PyList(<<PyDict([options |-> PyDict(o), terms |-> PyList(<<t>>)])>>) :
        o \in DpsOptionsMany, t \in DpsTermsMany }
\* ... and the inputs of the wrong shape
WrongContainers ==
    {PyNone, PyInt(5), S("title"), PyTuple(<<>>), PyTuple(<<S("title")>>),
     PyTuple(<<S("title"), S("name")>>)}
DpsSeriesWrong ==
    WrongContainers
      \cup {PyDict(EmptyDict), PyDict(Dict1(<<"title">>, PyDict(Dict1("source", QsBook))))}
      \cup { PyList(<<e>>) : e \in
               {S("title"), PyInt(5), PyList(<<>>), PyDict(EmptyDict),
                PyDict(Dict1("options", PyDict(EmptyDict))),
                PyDict(Dict1("terms", PyList(<<S("title")>>)))} }
      \cup { PyList(<<PyDict([options |-> o, terms |-> PyList(<<S("title")>>)])>>) :
               o \in WrongContainers \cup {PyList(<<>>)} }
      \cup { PyList(<<PyDict([options |-> PyDict(Dict1("source", QsBook)), terms |-> t])>>) :
               t \in WrongContainers \cup {PyDict(EmptyDict), PyDict(Dict1(<<"title">>, PyNone))} }
DpsInputs == DpsSeriesFew \cup DpsSeriesOne \cup DpsSeriesWrong


\* clean_pdps: lists of entries of several terms over few values ...
Sum == PyAggregate("Sum")
PdpsOptionsFew ==
    { [source |-> QsBook, categories |-> S("title")],
      [source |-> QsBook, categories |-> PyList(<<PyStr(<<"author", "name">>)>>),
       legend_by |-> PyList(<<S("title")>>),
       field_aliases |-> PyDict(Dict1(<<"title">>, S("T")))] }
PdpsTermValuesFew ==
    { Sum,
      PyDict([func |-> PyAggregate("Avg"),
              field_aliases |-> PyDict(Dict1(<<"author", "name">>, S("N")))]) }
PdpsSeriesFew ==
    { PyList(l) : l \in SeqsUpTo(
        { PyDict([options |-> PyDict(o), terms |-> PyDict(t)]) :
            o \in PdpsOptionsFew,
            t \in ItemsUpTo({<<"n1">>, <<"n2">>}, PdpsTermValuesFew, MaxTerms) }, MaxEntries) }
\* ... and one entry of one term over many values
PdpsOptionsMany ==
    Merged2(Choice("source", {QsBook, PyModel("Book")}),
    Merged2(Choice("func", {Sum, PyFunction("len")}),
    Merged2(Choice("categories",
                   {S("title"), S("bogus"), PyStr(<<"title", "bogus">>), PyInt(3),
                    PyList(<<>>), PyTuple(<<>>), PyTuple(<<S("title")>>),
                    PyList(<<S("title"), PyStr(<<"author", "name">>)>>),
                    PyList(<<PyInt(1)>>)}),
    Merged2(Choice("legend_by",
                   {PyNone, PyList(<<>>), S("title"), PyList(<<S("title")>>),
                    PyList(<<S("bogus")>>)}),
    Merged2(Choice("top_n_per_cat", {PyInt(2), S("two")}),
            Choice("field_aliases", {PyDict(Dict1(<<"title">>, S("T"))), PyInt(0)}))))))
PdpsSeriesOne ==
    { PyList(<<PyDict([options |-> PyDict(o), terms |-> PyDict(<< <<<<"n1">>, tv>> >>)])>>) :
        o \in PdpsOptionsMany, tv \in {Sum, PyDict(EmptyDict)} }
\* ... and the inputs of the wrong shape
PdpsSeriesWrong ==
    WrongContainers
      \cup {PyDict(EmptyDict)}
      \cup { PyList(<<e>>) : e \in
               {S("title"), PyInt(5), PyList(<<>>), PyDict(EmptyDict),
                PyDict(Dict1("options", PyDict(EmptyDict))),
                PyDict(Dict1("terms", PyDict(<< <<<<"n1">>, Sum>> >>)))} }
      \cup { PyList(<<PyDict([options |-> o, terms |-> PyDict(<< <<<<"n1">>, Sum>> >>)])>>) :
               o \in WrongContainers \cup {PyList(<<>>)} }
      \cup { PyList(<<PyDict([options |-> PyDict([source |-> QsBook, categories |-> S("title")]),
                              terms |-> t])>>) :
               t \in WrongContainers \cup {PyDict(<<>>), PyList(<<S("n1")>>)}
                       \cup { PyDict(<< <<<<"n1">>, tv>> >>) :
                                tv \in {PyInt(1), PyFunction("len"), PyNone,
                                        PyTuple(<<Sum, Sum>>)} } }
PdpsInputs == PdpsSeriesFew \cup PdpsSeriesOne \cup PdpsSeriesWrong

\* the datasource of clean_pcso and clean_cso: x1 and y1 are series of one
\* table, x2 is a series of another
Datasource ==
    [series |-> [n \in {<<"x1">>, <<"y1">>, <<"x2">>} |->
                   [_data |-> IF n = <<"x2">> THEN "table B" ELSE "table A"]]]
SeriesNames == {<<"x1">>, <<"y1">>, <<"x2">>, <<"zz">>}
Line == Dict1("type", S("line"))

\* clean_pcso
PcsoDicts ==
    { PyDict(d) : d \in UNION { [K -> {PyDict(EmptyDict), PyDict(Line), PyInt(0)}] :
                                  K \in SUBSET SeriesNames } }
PcsoTerms ==
    { S("x1"), S("zz"), PyInt(5),
      PyDict(<< <<<<"y1">>, PyDict(Line)>> >>),
      PyDict(<< <<<<"y1">>, PyTuple(<<>>)>>, <<<<"x1">>, PyInt(0)>> >>) }
PcsoSeriesFew ==
    { PyList(l) : l \in SeqsUpTo(
        { PyDict([options |-> PyDict(o), terms |-> PyList(t)]) :
            o \in {EmptyDict, Dict1("color", S("red"))},
            t \in SeqsUpTo(PcsoTerms, MaxTerms) }, MaxEntries) }
PcsoSeriesWrong ==
    WrongContainers
      \cup { PyList(<<e>>) : e \in
               {S("x1"), PyInt(5), PyList(<<>>), PyDict(EmptyDict),
                PyDict(Dict1("options", PyDict(EmptyDict))),
                PyDict(Dict1("terms", PyList(<<S("x1")>>)))} }
      \cup { PyList(<<PyDict([options |-> o, terms |-> PyList(<<S("x1")>>)])>>) :
               o \in WrongContainers \cup {PyList(<<>>)} }
      \cup { PyList(<<PyDict([options |-> PyDict(EmptyDict), terms |-> t])>>) :
               t \in WrongContainers \cup {PyDict(<<>>)} }
PcsoInputs == PcsoDicts \cup PcsoSeriesFew \cup PcsoSeriesWrong

\* clean_cso: dicts ...
CsoDicts ==
    { PyDict(d) : d \in UNION {
        [K -> { PyDict(Dict1("_x_axis_term", x)) : x \in {S("x1"), S("x2"), S("zz"), PyInt(5)} }
                \cup {PyDict(Line), PyInt(0)}] : K \in SUBSET SeriesNames } }
\* ... lists of entries of several terms over few values ...
CsoSeriesFew ==
    { PyList(l) : l \in SeqsUpTo(
        { PyDict([options |-> PyDict(Line), terms |-> PyDict(<< <<tk, PyList(td)>> >>)]) :
            tk \in {<<"x1">>, <<"x2">>},
            td \in SeqsUpTo({S("y1"), PyDict(<< <<<<"x2">>, PyDict(Dict1("color", S("red")))>> >>)},
                            MaxTerms) }, MaxEntries) }
\* ... one entry of one or two terms over many values ...
CsoYterms ==
    { S("x1"), S("y1"), S("x2"), S("zz"), PyInt(5), PyTuple(<<S("y1"), S("x1")>>),
      PyDict(<<>>),
      PyDict(<< <<<<"y1">>, PyInt(1)>> >>),
      PyDict(<< <<<<"y1">>, PyDict(Dict1("_x_axis_term", S("x2")))>> >>),
      PyDict(<< <<<<"y1">>, PyDict(Line)>>, <<<<"x2">>, PyDict(Line)>> >>) }
CsoTermValues ==
    { PyList(<<y>>) : y \in CsoYterms } \cup {PyList(<<>>), PyInt(5), S("y1"), PyTuple(<<S("y1"), S("x1")>>)}
CsoSeriesOne ==
    { PyList(<<PyDict([options |-> PyDict(o), terms |-> PyDict(t)])>>) :
        o \in {EmptyDict, Dict1("_x_axis_term", S("x2"))},
        t \in ItemsUpTo({<<"x1">>, <<"zz">>}, CsoTermValues, 1)
                \cup { << <<<<"x1">>, PyList(<<y>>)>>, <<<<"x2">>, PyList(<<S("x2")>>)>> >> :
                         y \in CsoYterms } }
\* ... and the inputs of the wrong shape
CsoSeriesWrong ==
    WrongContainers
      \cup { PyList(<<e>>) : e \in
               {S("x1"), PyInt(5), PyList(<<>>), PyDict(EmptyDict),
                PyDict(Dict1("options", PyDict(EmptyDict))),
                PyDict(Dict1("terms", PyDict(<< <<<<"x1">>, PyList(<<S("y1")>>)>> >>)))} }
      \cup { PyList(<<PyDict([options |-> o,
                              terms |-> PyDict(<< <<<<"x1">>, PyList(<<S("y1")>>)>> >>)])>>) :
               o \in WrongContainers \cup {PyList(<<>>)} }
      \cup { PyList(<<PyDict([options |-> PyDict(EmptyDict), terms |-> t])>>) :
               t \in WrongContainers \cup {PyList(<<S("y1")>>)} }
CsoInputs == CsoDicts \cup CsoSeriesFew \cup CsoSeriesOne \cup CsoSeriesWrong

(***************************************************************************)
(* The calls.  fn is the function called ("none" before the call), arg its *)
(* first argument as the caller built it, ctx its other argument, after    *)
(* the first argument's object as the calls left it, ret the outcome of    *)
(* the call and ret2 that of a second call.                                *)
(***************************************************************************)
NoCall == [how |-> "none", out |-> Return(PyNone)]

Init ==
    /\ fn = "none"
    /\ arg = PyNone
    /\ ctx = PyNone
    /\ after = PyNone
    /\ ret = Return(PyNone)
    /\ ret2 = NoCall

Call_validate_field_lookup_term ==
    /\ fn = "none"
    /\ \E source \in LookupSources, term \in LookupTerms :
        /\ fn' = "_validate_field_lookup_term"
        /\ arg' = PyStr(term)
        /\ ctx' = source
        /\ after' = PyStr(term)
        /\ ret' = _validate_field_lookup_term(source.val.model, term, source.val.query)
    /\ UNCHANGED ret2

Call_clean_sortf_mapf_mts ==
    /\ fn = "none"
    /\ \E x \in SortMapInputs :
        /\ fn' = "clean_sortf_mapf_mts"
        /\ arg' = x
        /\ after' = x
        /\ ret' = clean_sortf_mapf_mts(x)
    /\ UNCHANGED <<ctx, ret2>>

Call_clean_x_sortf_mapf_mts ==
    /\ fn = "none"
    /\ \E x \in XSortMapInputs :
        /\ fn' = "clean_x_sortf_mapf_mts"
        /\ arg' = x
        /\ after' = x
        /\ ret' = clean_x_sortf_mapf_mts(x)
    /\ UNCHANGED <<ctx, ret2>>

Call_merge_field_aliases ==
    /\ fn = "none"
    /\ \E fa_actual \in AliasDicts, fa_cat \in AliasDicts, fa_lgby \in AliasDicts :
        /\ fn' = "_merge_field_aliases"
        /\ arg' = [fa_actual |-> fa_actual, fa_cat |-> fa_cat, fa_lgby |-> fa_lgby]
        /\ after' = [x \in {"fa_actual", "fa_cat", "fa_lgby"} |->
                       _merge_field_aliases(fa_actual, fa_cat, fa_lgby)[x]]
        /\ ret' = Return(PyDict(_merge_field_aliases(fa_actual, fa_cat, fa_lgby).fa))
    /\ UNCHANGED <<ctx, ret2>>

Call_clean_dps ==
    /\ fn = "none"
    /\ \E series \in DpsInputs :
        /\ fn' = "clean_dps"
        /\ arg' = series
        /\ after' = clean_dps(series).obj
        /\ ret' = clean_dps(series).out
    /\ UNCHANGED <<ctx, ret2>>

\* the caller calls clean_dps again with the same list object
Repeat_clean_dps ==
    /\ fn = "clean_dps"
    /\ ret2 = NoCall
    /\ ret2' = [how |-> "repeat", out |-> clean_dps(after).out]
    /\ after' = clean_dps(after).obj
    /\ UNCHANGED <<fn, arg, ctx, ret>>

\* the caller passes the dict that clean_dps returned to clean_dps
Feedback_clean_dps ==
    /\ fn = "clean_dps"
    /\ ret2 = NoCall
    /\ ret.exc = ""
    /\ ret2' = [how |-> "feedback", out |-> clean_dps(ret.value).out]
    /\ UNCHANGED <<fn, arg, ctx, after, ret>>

Call_clean_pdps ==
    /\ fn = "none"
    /\ \E series \in PdpsInputs :
        /\ fn' = "clean_pdps"
        /\ arg' = series
        /\ after' = series
        /\ ret' = clean_pdps(series)
    /\ UNCHANGED <<ctx, ret2>>

\* the caller calls clean_pdps again with the same list object
Repeat_clean_pdps ==
    /\ fn = "clean_pdps"
    /\ ret2 = NoCall
    /\ ret2' = [how |-> "repeat", out |-> clean_pdps(after)]
    /\ UNCHANGED <<fn, arg, ctx, after, ret>>

\* the caller passes the dict that clean_pdps returned to clean_pdps
Feedback_clean_pdps ==
    /\ fn = "clean_pdps"
    /\ ret2 = NoCall
    /\ ret.exc = ""
    /\ ret2' = [how |-> "feedback", out |-> clean_pdps(ret.value)]
    /\ UNCHANGED <<fn, arg, ctx, after, ret>>

Call_clean_pcso ==
    /\ fn = "none"
    /\ \E series_options \in PcsoInputs :
        /\ fn' = "clean_pcso"
        /\ arg' = series_options
        /\ after' = series_options
        /\ ret' = clean_pcso(series_options, Datasource)
    /\ ctx' = Datasource
    /\ UNCHANGED ret2

Call_clean_cso ==
    /\ fn = "none"
    /\ \E series_options \in CsoInputs :
        /\ fn' = "clean_cso"
        /\ arg' = series_options
        /\ after' = series_options
        /\ ret' = clean_cso(series_options, Datasource)
    /\ ctx' = Datasource
    /\ UNCHANGED ret2

Next ==
    \/ Call_validate_field_lookup_term
    \/ Call_clean_sortf_mapf_mts
    \/ Call_clean_x_sortf_mapf_mts
    \/ Call_merge_field_aliases
    \/ Call_clean_dps
    \/ Repeat_clean_dps
    \/ Feedback_clean_dps
    \/ Call_clean_pdps
    \/ Repeat_clean_pdps
    \/ Feedback_clean_pdps
    \/ Call_clean_pcso
    \/ Call_clean_cso

Spec == Init /\ [][Next]_vars

\* the data pools alone
NextPool ==
    \/ Call_merge_field_aliases
    \/ Call_clean_dps
    \/ Repeat_clean_dps
    \/ Feedback_clean_dps
    \/ Call_clean_pdps
    \/ Repeat_clean_pdps
    \/ Feedback_clean_pdps

SpecPool == Init /\ [][NextPool]_vars

\* the chart series options alone
NextChart == Call_clean_cso

SpecChart == Init /\ [][NextChart]_vars

(***************************************************************************)
(* The properties.  Each is a predicate on the state after a call (and,    *)
(* where it speaks of one, after the second call).                         *)
(***************************************************************************)
Converters == {"clean_dps", "clean_pdps", "clean_pcso", "clean_cso"}
PublicFunctions == Converters \cup {"clean_sortf_mapf_mts", "clean_x_sortf_mapf_mts"}
DataPools == {"clean_dps", "clean_pdps"}

\* the terms of the entries of a series list, in input order, each with the
\* 'options' of its entry (a term of clean_pdps is an item <<name, value>>)
RECURSIVE Occurrences(_)
Occurrences(entries) ==
    IF entries = <<>>
    THEN <<>>
    ELSE [j \in 1..Len(Head(entries).val["terms"].val) |->
            [options |-> Head(entries).val["options"],
             term |-> Head(entries).val["terms"].val[j]]]
         \o Occurrences(Tail(entries))

\* the series name that an occurrence defines
NameOf(f, occ) ==
    IF f = "clean_pdps" THEN occ.term[1]
    ELSE IF occ.term.kind = "str" THEN occ.term.val
    ELSE occ.term.val["_new_name"].val

\* the outcome of the call with the occurrence as the only term of the only entry
Alone(f, occ) ==
    IF f = "clean_pdps"
    THEN clean_pdps(PyList(<<PyDict([options |-> occ.options,
                                     terms |-> PyDict(<<occ.term>>)])>>))
    ELSE clean_dps(PyList(<<PyDict([options |-> occ.options,
                                    terms |-> PyList(<<occ.term>>)])>>)).out

\* the last occurrence, in input order, that defines the name n
LastOccurrence(f, occs, n) ==
    occs[CHOOSE i \in DOMAIN occs :
           /\ NameOf(f, occs[i]) = n
           /\ \A j \in DOMAIN occs : j > i => NameOf(f, occs[j]) # n]

\* a valid input list: a non-empty list of entries with an 'options' dict
\* and a non-empty 'terms' container of the right type, each of whose terms
\* is accepted when it is the only one
ValidSeries(f, series) ==
    /\ series.kind = "list"
    /\ series.val # <<>>
    /\ \A i \in DOMAIN series.val :
         /\ series.val[i].kind = "dict"
         /\ {"options", "terms"} \subseteq DOMAIN series.val[i].val
         /\ series.val[i].val["options"].kind = "dict"
         /\ series.val[i].val["terms"].kind = (IF f = "clean_pdps" THEN "dict" ELSE "list")
         /\ Truthy(series.val[i].val["terms"])
    /\ \A k \in DOMAIN Occurrences(series.val) : Alone(f, Occurrences(series.val)[k]).exc = ""

\* C1, as the code has it: for every valid list input s, feeding the dict
\* that clean_dps(s) or clean_pdps(s) returned back into the same function
\* fails with an input validation error (the functions take lists only).
C1_FeedbackRejected ==
    (fn \in DataPools /\ ret2.how = "feedback") => ret2.out.exc = "APIInputError"

\* C1: a state in which clean_dps returned a dict of at least one series for
\* a valid list, and was then called with that dict and raised APIInputError.
C1_FeedbackWitness ==
    /\ fn = "clean_dps"
    /\ ValidSeries("clean_dps", arg)
    /\ ret.exc = ""
    /\ DOMAIN ret.value.val # {}
    /\ ret2.how = "feedback"
    /\ ret2.out.exc = "APIInputError"

\* C1, as stated: feeding the dict returned by clean_dps(s) or clean_pdps(s)
\* back into the same function returns that dict unchanged, with no error.
C1_RoundTrip ==
    (fn \in DataPools /\ ret2.how = "feedback") => ret2.out = Return(ret.value)

\* an entry of a series list whose 'terms' container is empty
EmptyTerms(entry) ==
    /\ entry.kind = "dict"
    /\ "terms" \in DOMAIN entry.val
    /\ entry.val["terms"].kind \in {"list", "dict"}
    /\ ~Truthy(entry.val["terms"])

\* C2, as stated: each of clean_dps, clean_pdps, clean_pcso and clean_cso,
\* given an empty top-level list or a list with an entry whose 'terms'
\* container is empty, fails with an input validation error and never
\* returns an (empty) result map.
C2_EmptinessRejected ==
    (/\ fn \in Converters
     /\ arg.kind = "list"
     /\ \/ arg.val = <<>>
        \/ \E i \in DOMAIN arg.val : EmptyTerms(arg.val[i]))
    => ret.exc = "APIInputError"

\* an entry sok: sod of a chart's series options is valid for the datasource:
\* sok is a series, sod carries an '_x_axis_term' that is a series too, and
\* both series are of the same table
ChartEntryValid(sok, sod, ds) ==
    /\ sok \in DOMAIN ds.series
    /\ sod.kind = "dict"
    /\ "_x_axis_term" \in DOMAIN sod.val
    /\ sod.val["_x_axis_term"].kind = "str"
    /\ sod.val["_x_axis_term"].val \in DOMAIN ds.series
    /\ ds.series[sok]._data = ds.series[sod.val["_x_axis_term"].val]._data

C4_SingleErrorKind ==
    fn \in PublicFunctions =>
      /\ ret.exc \in {"", "APIInputError"}
      /\ ret2.out.exc \in {"", "APIInputError"}

\* the 'terms' of an entry is of the wrong container type for the converter
\* f, or holds an element of a type that f does not accept
WrongTerms(f, terms) ==
    CASE f = "clean_dps" ->
           \/ terms.kind # "list"
           \/ \E j \in DOMAIN terms.val : terms.val[j].kind \notin {"str", "dict"}
      [] f = "clean_pdps" ->
           \/ terms.kind # "dict"
           \/ \E j \in DOMAIN terms.val : terms.val[j][2].kind \notin {"Aggregate", "dict"}
      [] f = "clean_pcso" ->
           \/ terms.kind # "list"
           \/ \E j \in DOMAIN terms.val : terms.val[j].kind \notin {"str", "dict"}
      [] f = "clean_cso" ->
           \/ terms.kind # "dict"
           \/ \E j \in DOMAIN terms.val :
                \/ terms.val[j][2].kind # "list"
                \/ \E k \in DOMAIN terms.val[j][2].val :
                     terms.val[j][2].val[k].kind \notin {"str", "dict"}

\* C5, as stated: in each of the four converters, a list entry whose
\* 'options' is not a dict, whose 'terms' is of the wrong container type or
\* whose 'terms' holds an element of a type the converter does not accept
\* makes the call fail with an input validation error; none is passed over
\* while the call returns a result.
C5_WrongTypesRejected ==
    (/\ fn \in Converters
     /\ arg.kind = "list"
     /\ \E i \in DOMAIN arg.val :
          /\ arg.val[i].kind = "dict"
          /\ {"options", "terms"} \subseteq DOMAIN arg.val[i].val
          /\ \/ arg.val[i].val["options"].kind # "dict"
             \/ WrongTerms(fn, arg.val[i].val["terms"]))
    => ret.exc = "APIInputError"

\* every segment of the term resolves in turn against the field names of the
\* model reached so far: the related model after a direct or concrete field
\* (none after a field that is no relation), the same model after a reverse
\* relation
RECURSIVE Resolves(_, _)
Resolves(model, term) ==
    /\ model # "None"
    /\ Head(term) \in get_all_field_names(model)
    /\ \/ Len(term) = 1
       \/ Resolves(IF ~get_field(model, Head(term)).auto_created
                        \/ get_field(model, Head(term)).concrete
                   THEN get_field(model, Head(term)).related_model
                   ELSE model,
                   Tail(term))

\* C6, as stated: _validate_field_lookup_term(model, term, query) returns
\* exactly when the full term is an annotation or extra field of the query or
\* every segment of the term resolves in turn; for every other term it fails
\* with an input validation error.
C6_LookupAcceptance ==
    fn = "_validate_field_lookup_term" =>
      /\ (ret.exc = "") <=>
           \/ arg.val \in ctx.val.query.annotations \cup ctx.val.query.extra
           \/ Resolves(ctx.val.model, arg.val)
      /\ ret.exc \in {"", "APIInputError"}

\* explicit entries override category entries, which override legend entries
Precedence(E, C, L) ==
    [k \in DOMAIN E \cup DOMAIN C \cup DOMAIN L |->
       IF k \in DOMAIN E THEN E[k] ELSE IF k \in DOMAIN C THEN C[k] ELSE L[k]]

\* the aliases derived from a list of field paths of a source
DerivedAliases(source, paths) ==
    [p \in { paths[i].val : i \in DOMAIN paths } |->
       _validate_field_lookup_term(source.val.model, p, source.val.query).value]

\* the 'field_aliases' that the user supplied for an occurrence of clean_pdps:
\* that of the term, else that of the options, else none
SuppliedAliases(occ) ==
    IF occ.term[2].kind = "dict" /\ "field_aliases" \in DOMAIN occ.term[2].val
    THEN occ.term[2].val["field_aliases"].val
    ELSE IF "field_aliases" \in DOMAIN occ.options.val
    THEN occ.options.val["field_aliases"].val
    ELSE EmptyDict

\* C7: _merge_field_aliases(E, C, L) returns a map whose keys are those of E,
\* C and L and whose value for a key is that of E, else that of C, else that
\* of L, and leaves E, C and L as they were; and the 'field_aliases' of every
\* record that clean_pdps returns is this merge of the aliases the user
\* supplied with those derived from its categories and its legend_by.
C7_AliasPrecedence ==
    /\ fn = "_merge_field_aliases" =>
         /\ ret = Return(PyDict(Precedence(arg.fa_actual, arg.fa_cat, arg.fa_lgby)))
         /\ after = arg
    /\ (fn = "clean_pdps" /\ ret.exc = "") =>
         \A n \in DOMAIN ret.value.val :
           ret.value.val[n].val["field_aliases"] =
             PyDict(Precedence(
               SuppliedAliases(LastOccurrence(fn, Occurrences(arg.val), n)),
               DerivedAliases(ret.value.val[n].val["source"],
                              ret.value.val[n].val["categories"].val),
               DerivedAliases(ret.value.val[n].val["source"],
                              ret.value.val[n].val["legend_by"].val)))

\* C7: a state in which _merge_field_aliases was called with a key that all
\* three maps hold, E and C with different values, and returned that of E.
C7_AliasWitness ==
    /\ fn = "_merge_field_aliases"
    /\ \E k \in DOMAIN arg.fa_actual \cap DOMAIN arg.fa_cat \cap DOMAIN arg.fa_lgby :
         /\ arg.fa_actual[k] # arg.fa_cat[k]
         /\ ret.value.val[k] = arg.fa_actual[k]

\* C8, as stated: clean_sortf_mapf_mts fails with an input validation error
\* or returns a triple (sortf, mapf, mts) with sortf and mapf each None or a
\* callable and mts a bool; an empty input returns (None, None, False),
\* (f, g, 1) returns (f, g, True), and an input that is not a tuple, is a
\* tuple of another length than three or has a non-callable value in a
\* function slot fails.
C8_SortMapShape ==
    fn = "clean_sortf_mapf_mts" =>
      /\ ret.exc \in {"", "APIInputError"}
      /\ ret.exc = "" =>
           /\ ret.value.kind = "tuple"
           /\ Len(ret.value.val) = 3
           /\ \A i \in {1, 2} : ret.value.val[i] = PyNone \/ Callable(ret.value.val[i])
           /\ ret.value.val[3].kind = "bool"
      /\ ~Truthy(arg) => ret = Return(PyTuple(<<PyNone, PyNone, PyBool(FALSE)>>))
      /\ (/\ arg.kind = "tuple"
          /\ Len(arg.val) = 3
          /\ Callable(arg.val[1])
          /\ Callable(arg.val[2])
          /\ arg.val[3] = PyInt(1))
         => ret = Return(PyTuple(<<arg.val[1], arg.val[2], PyBool(TRUE)>>))
      /\ (/\ Truthy(arg)
          /\ \/ arg.kind # "tuple"
             \/ Len(arg.val) # 3
             \/ \E i \in {1, 2} : arg.val[i] # PyNone /\ ~Callable(arg.val[i]))
         => ret.exc = "APIInputError"

\* C9: when a valid input list of clean_dps or clean_pdps defines a series
\* name more than once, the call succeeds and the record stored under the
\* name is exactly the record built from its last occurrence in input order
\* (that of the call with this occurrence alone): no key or value of it comes
\* from an earlier occurrence.
C9_LastWriteWins ==
    (fn \in DataPools /\ ValidSeries(fn, arg)) =>
      /\ ret.exc = ""
      /\ DOMAIN ret.value.val =
           { NameOf(fn, Occurrences(arg.val)[k]) : k \in DOMAIN Occurrences(arg.val) }
      /\ \A n \in DOMAIN ret.value.val :
           ret.value.val[n] =
             Alone(fn, LastOccurrence(fn, Occurrences(arg.val), n)).value.val[n]

\* C9: a state in which clean_dps returned for a valid list that defines a
\* name twice, the earlier occurrence alone giving a record with a key
\* ('func') that the record of the later one, and the record stored, lack.
C9_DuplicateWitness ==
    /\ fn = "clean_dps"
    /\ ValidSeries(fn, arg)
    /\ ret.exc = ""
    /\ \E i, j \in DOMAIN Occurrences(arg.val) :
         /\ i < j
         /\ NameOf(fn, Occurrences(arg.val)[i]) = NameOf(fn, Occurrences(arg.val)[j])
         /\ "func" \in DOMAIN Alone(fn, Occurrences(arg.val)[i]).value.val[
                                NameOf(fn, Occurrences(arg.val)[i])].val
         /\ "func" \notin DOMAIN ret.value.val[NameOf(fn, Occurrences(arg.val)[j])].val

\* C10, as stated: after clean_dps(series) or clean_pdps(series) returns or
\* fails, the caller's list, its entries, their 'options' and their term
\* dicts hold the same keys and values as before, and a second call with the
\* same object has the same outcome as the first.
C10_InputUnchanged ==
    fn \in DataPools =>
      /\ after = arg
      /\ ret2.how = "repeat" => ret2.out = ret

====
